---- MODULE Spec2Model ----
(***************************************************************************)
(* Real-time chat fan-out, presence and consolidated notifications of      *)
(* HangSpace (src/app.py Socket.IO handlers, src/utils/database.py).       *)
(*                                                                         *)
(* The server runs Flask-SocketIO with async_mode='threading'              *)
(* (src/app.py:59-63): every inbound event is handled on its own thread,   *)
(* so handlers interleave between their database calls and emits.  Each    *)
(* single database call and each single emit is one atomic step.           *)
(***************************************************************************)
EXTENDS Integers, Sequences, FiniteSets, TLC

(***************************************************************************)
(* Bounds of the exploration                                               *)
(***************************************************************************)
MaxConns == 3      \* connections ever opened in one run
FanoutMsgs == 2    \* messages persisted in one run of SpecFanout
LifecycleMsgs == 2 \* messages persisted in one run of SpecLifecycle
NotifMsgs == 3     \* messages persisted in one run of SpecNotif
RaceMsgs == 3      \* messages persisted in one run of SpecRace
MaxJoins == 2      \* room memberships held at the same time
GuardMsgs == 2     \* messages persisted in one run of SpecGuard
FailureMsgs == 2   \* messages persisted in one run of SpecFailure
ReadMsgs == 1      \* messages persisted in one run of SpecRead
RoomsLog == 3      \* inbound events SpecRooms remembers
PreviewMsgs == 2   \* messages persisted in one run of SpecPreview
AccessMsgs == 1    \* messages persisted in one run of SpecAccess

(***************************************************************************)
(* The world the handlers act on                                           *)
(***************************************************************************)
NoUser == "none"   \* 'user_profile_id' not in session / key absent
NoChat == "none"   \* data.get('chat_id') is None
NoRow == 0         \* find_one() returned None
NoMessage == 0     \* data.get('message_id') is None / create_message returned None

Users == {"u1", "u2", "u3"}

\* Socket ids.  The Flask session of a socket is the one the HTTP handshake
\* carried; the handlers never write to it, so it is fixed per socket.
Sids == {"k1", "k2", "k3", "k4", "k5"}

session ==
    [k1 |-> "u1", k2 |-> "u1", k3 |-> "u2", k4 |-> "u3", k5 |-> NoUser]

\* chats collection: _id |-> participants (in stored order)
ChatIds == {"c1", "c2"}

chats == [c1 |-> <<"u1", "u2">>, c2 |-> <<"u1", "u2", "u3">>]

\* Room names a client can pass to join_chat / leave_chat: a chat id, or a
\* user id (the identity channel the server emits notifications to).
RoomNames == ChatIds \cup Users

\* data.get('message')
Contents == {"hi", "there"}

VARIABLES
    conn,               \* sid -> "new" | "connecting" | "open" | "disconnecting" | "closed"
    connected_clients,  \* sid -> user id, NoUser when the key is absent
    rooms,              \* room name -> set of sids (Socket.IO room membership)
    status,             \* user_profiles.status
    messages,           \* messages collection, _id = index
    notifications,      \* notifications collection, _id = index
    handlers,           \* handler threads (send_message, message_read)
    received,           \* sid -> message id -> new_message copies delivered
    emitted,            \* events emitted by the last step
    read_by,            \* messages.read_by entries (message id, reader), in stored order
    receipts,           \* message_read_receipt events emitted so far
    history             \* the inbound events handled last, newest last

vars == <<conn, connected_clients, rooms, status, messages, notifications,
          handlers, received, emitted, read_by, receipts, history>>

\* what the handlers of the connections, rooms and send_message leave alone
observed == <<read_by, receipts, history>>

Threads == {"h1", "h2"}

Idle == [pc |-> "idle", sid |-> "k1", chat_id |-> NoChat, msg |-> 0,
         todo |-> <<>>, existing |-> NoRow, count |-> 0]

Range(s) == {s[i] : i \in DOMAIN s}

(***************************************************************************)
(* Socket.IO server: who an emit reaches                                   *)
(***************************************************************************)
\* Sids the server can still write to: connected to the namespace and the
\* transport not closed.
Reachable == {c \in Sids : conn[c] \in {"connecting", "open"}}

\* emit(..., broadcast=True)
BroadcastTargets == Reachable

\* emit(..., room=name): members of a named room
RoomTargets(name) == rooms[name] \cap Reachable

\* emit(..., room=request.sid): the personal room of a socket
SidTargets(sid) == {sid} \cap Reachable

\* One emit: the event name, the room argument ("*" for broadcast=True), the
\* socket whose handler emits, the sockets it is delivered to, and the
\* payload (user id, message id, notification id)
Event(name, room, origin, to, user, msg, row) ==
    [event |-> name, room |-> room, origin |-> origin, to |-> to,
     user |-> user, msg |-> msg, row |-> row]

Memberships == {<<r, c>> \in RoomNames \X Sids : c \in rooms[r]}

\* live authenticated connections of a user
LiveConnections(u) == {c \in Sids : connected_clients[c] = u}

(***************************************************************************)
(* Initial state: server started, empty database apart from users/chats   *)
(***************************************************************************)
Init ==
    /\ conn = [c \in Sids |-> "new"]
    /\ connected_clients = [c \in Sids |-> NoUser]
    /\ rooms = [r \in RoomNames |-> {}]
    /\ status = [u \in Users |-> "offline"]
    /\ messages = <<>>
    /\ notifications = <<>>
    /\ handlers = [h \in Threads |-> Idle]
    /\ received = [c \in Sids |-> <<>>]
    /\ emitted = <<>>
    /\ read_by = <<>>
    /\ receipts = <<>>
    /\ history = <<>>

\* The state once the sockets in sids have connected and an event without
\* effect (join_chat with no chat_id) has been handled
InitOpen(sids) ==
    /\ conn = [c \in Sids |-> IF c \in sids THEN "open" ELSE "new"]
    /\ connected_clients = [c \in Sids |-> IF c \in sids THEN session[c] ELSE NoUser]
    /\ rooms = [r \in RoomNames |-> {}]
    /\ status = [u \in Users |->
                    IF \E c \in sids : session[c] = u THEN "online" ELSE "offline"]
    /\ messages = <<>>
    /\ notifications = <<>>
    /\ handlers = [h \in Threads |-> Idle]
    /\ received = [c \in Sids |-> <<>>]
    /\ emitted = <<>>
    /\ read_by = <<>>
    /\ receipts = <<>>
    /\ history = <<>>

(***************************************************************************)
(* Presence: connect, disconnect, logout                                   *)
(***************************************************************************)
\* DatabaseManager.update_user_status
update_user_status(st, profile_id, new_status) ==
    [st EXCEPT ![profile_id] = new_status]

\* handle_connect, up to and including the status write
handle_connect(c) ==
    /\ conn[c] = "new"
    /\ conn' = [conn EXCEPT ![c] = "connecting"]
    /\ IF session[c] # NoUser
       THEN /\ connected_clients' = [connected_clients EXCEPT ![c] = session[c]]
            /\ status' = update_user_status(status, session[c], "online")
       ELSE UNCHANGED <<connected_clients, status>>
    /\ emitted' = <<>>
    /\ UNCHANGED <<rooms, messages, notifications, handlers, received>>

\* the broadcast outside the session test
handle_connect_emit_always(c) ==
    /\ conn[c] = "connecting"
    /\ conn' = [conn EXCEPT ![c] = "open"]
    /\ emitted' = <<Event("user_online", "*", c, BroadcastTargets, session[c], 0, NoRow)>>
    /\ UNCHANGED <<connected_clients, rooms, status, messages, notifications,
                   handlers, received>>

\* handle_connect, the broadcast; the handler returns and the socket is open
handle_connect_emit(c) ==
    /\ conn[c] = "connecting"
    /\ conn' = [conn EXCEPT ![c] = "open"]
    /\ emitted' = IF session[c] # NoUser
                  THEN <<Event("user_online", "*", c, BroadcastTargets, session[c], 0, NoRow)>>
                  ELSE <<>>
    /\ UNCHANGED <<connected_clients, rooms, status, messages, notifications,
                   handlers, received>>

\* handle_disconnect, up to and including the status write.  The transport
\* is already gone when the handler runs.
handle_disconnect(c) ==
    /\ conn[c] = "open"
    /\ conn' = [conn EXCEPT ![c] = "disconnecting"]
    /\ IF connected_clients[c] # NoUser
       THEN status' = update_user_status(status, connected_clients[c], "offline")
       ELSE UNCHANGED status
    /\ emitted' = <<>>
    /\ UNCHANGED <<connected_clients, rooms, messages, notifications, handlers,
                   received>>

\* the handler without the del
unregister_forgotten(cc, c) == cc

\* del connected_clients[client_id]
unregister(cc, c) == [cc EXCEPT ![c] = NoUser]

\* handle_disconnect, the broadcast and the registry delete; after the
\* handler the Socket.IO server drops the sid from every room.
handle_disconnect_emit(c) ==
    /\ conn[c] = "disconnecting"
    /\ conn' = [conn EXCEPT ![c] = "closed"]
    /\ emitted' = IF connected_clients[c] # NoUser
                  THEN <<Event("user_offline", "*", c, BroadcastTargets,
                               connected_clients[c], 0, NoRow)>>
                  ELSE <<>>
    /\ connected_clients' = IF connected_clients[c] # NoUser
                            THEN unregister(connected_clients, c)
                            ELSE connected_clients
    /\ rooms' = [r \in RoomNames |-> rooms[r] \ {c}]
    /\ UNCHANGED <<status, messages, notifications, handlers, received>>

\* GET /logout with a session of profile u
logout(u) ==
    /\ status' = update_user_status(status, u, "offline")
    /\ emitted' = <<>>
    /\ UNCHANGED <<conn, connected_clients, rooms, messages, notifications,
                   handlers, received>>

(***************************************************************************)
(* Room membership                                                         *)
(***************************************************************************)
\* the guard with the session test left out
authenticated_always(c) == TRUE

\* 'user_profile_id' in session
authenticated(c) == session[c] # NoUser

\* a join that toggles the membership
join_room_toggle(rm, name, c) ==
    [rm EXCEPT ![name] = IF c \in @ THEN @ \ {c} ELSE @ \cup {c}]

\* flask_socketio.join_room / leave_room of the calling socket
join_room(rm, name, c) == [rm EXCEPT ![name] = @ \cup {c}]

leave_room(rm, name, c) == [rm EXCEPT ![name] = @ \ {c}]

handle_join_chat(c, chat_id) ==
    /\ conn[c] = "open"
    /\ IF chat_id # NoChat /\ authenticated(c)
       THEN rooms' = join_room(rooms, chat_id, c)
       ELSE UNCHANGED rooms
    /\ emitted' = <<>>
    /\ UNCHANGED <<conn, connected_clients, status, messages, notifications,
                   handlers, received>>

handle_leave_chat(c, chat_id) ==
    /\ conn[c] = "open"
    /\ IF chat_id # NoChat /\ authenticated(c)
       THEN rooms' = leave_room(rooms, chat_id, c)
       ELSE UNCHANGED rooms
    /\ emitted' = <<>>
    /\ UNCHANGED <<conn, connected_clients, status, messages, notifications,
                   handlers, received>>

(***************************************************************************)
(* Persistence: messages, chats, profiles                                  *)
(***************************************************************************)
\* user_profiles.display_name
display_name == [u1 |-> "A", u2 |-> "B", u3 |-> "C"]

\* DatabaseManager.create_message: the inserted document
create_message(chat_id, sender_id, content) ==
    [chat_id |-> chat_id, sender_id |-> sender_id, content |-> content]

\* DatabaseManager.get_chat: the participants if user_id is one of them,
\* the empty list standing for None
get_chat(chat_id, user_id) ==
    IF chat_id \in ChatIds /\ user_id \in Range(chats[chat_id])
    THEN chats[chat_id]
    ELSE <<>>

\* for participant_id in chat['participants']: if participant_id != sender
OtherParticipants(participants, user_id) ==
    SelectSeq(participants, LAMBDA p : p # user_id)

(***************************************************************************)
(* Persistence: consolidated notifications                                 *)
(***************************************************************************)
\* the preview without the truncation
message_preview_untruncated(content) == content

\* message_preview of create_consolidated_message_notification
message_preview(content) ==
    IF Len(content) > 50 THEN SubSeq(content, 1, 47) \o "..." ELSE content

\* f"{sender_name}: {message_preview}"
notification_message(sender_id, content) ==
    display_name[sender_id] \o ": " \o message_preview(content)

\* the query without 'is_read': False
AnyRows(ns, receiver_id, sender_id) ==
    {i \in DOMAIN ns : /\ ns[i].user_id = receiver_id
                       /\ ns[i].type = "new_message"
                       /\ ns[i].sender_id = sender_id}

\* rows that notifications.find_one({user_id, type: 'new_message',
\* is_read: False, data.sender_id}) can match
UnreadRows(ns, receiver_id, sender_id) ==
    {i \in DOMAIN ns : /\ ns[i].user_id = receiver_id
                       /\ ns[i].type = "new_message"
                       /\ ns[i].is_read = FALSE
                       /\ ns[i].sender_id = sender_id}

\* find_one returns the first match in natural (insertion) order
find_one_unread(ns, receiver_id, sender_id) ==
    IF UnreadRows(ns, receiver_id, sender_id) = {}
    THEN NoRow
    ELSE CHOOSE i \in UnreadRows(ns, receiver_id, sender_id) :
            \A j \in UnreadRows(ns, receiver_id, sender_id) : i <= j

\* notifications.update_one({'_id': existing['_id']}, {'$set': ...}) with the
\* count computed from the document read earlier
update_existing(ns, id, sender_id, content, count) ==
    [ns EXCEPT ![id] = [@ EXCEPT !.message = notification_message(sender_id, content),
                                 !.message_count = count + 1,
                                 !.latest_content = content]]

\* notifications.insert_one(notification)
insert_new(ns, receiver_id, sender_id, content) ==
    Append(ns, [user_id |-> receiver_id, type |-> "new_message",
                sender_id |-> sender_id, is_read |-> FALSE,
                message_count |-> 1,
                message |-> notification_message(sender_id, content),
                latest_content |-> content])

\* DatabaseManager.mark_notification_as_read
mark_notification_as_read(ns, notification_id, user_id) ==
    [i \in DOMAIN ns |->
        IF i = notification_id /\ ns[i].user_id = user_id
        THEN [ns[i] EXCEPT !.is_read = TRUE]
        ELSE ns[i]]

\* the query of mark_all_message_notifications_as_read
MessageRowsToMark(ns, user_id, sender_id) ==
    {i \in DOMAIN ns : /\ ns[i].user_id = user_id
                       /\ ns[i].type = "new_message"
                       /\ ns[i].is_read = FALSE
                       /\ (sender_id # NoUser => ns[i].sender_id = sender_id)}

\* DatabaseManager.mark_all_message_notifications_as_read
mark_all_message_notifications_as_read(ns, user_id, sender_id) ==
    [i \in DOMAIN ns |->
        IF i \in MessageRowsToMark(ns, user_id, sender_id)
        THEN [ns[i] EXCEPT !.is_read = TRUE]
        ELSE ns[i]]

\* DatabaseManager.mark_all_notifications_as_read
mark_all_notifications_as_read(ns, user_id) ==
    [i \in DOMAIN ns |->
        IF ns[i].user_id = user_id /\ ns[i].is_read = FALSE
        THEN [ns[i] EXCEPT !.is_read = TRUE]
        ELSE ns[i]]

(***************************************************************************)
(* send_message (the handler registered last, src/app.py:1818, is the one  *)
(* the Socket.IO server dispatches to)                                     *)
(***************************************************************************)
\* the room emit without include_self=False
new_message_room_targets_with_self(chat_id, sid) ==
    IF chat_id \in RoomNames THEN RoomTargets(chat_id) ELSE {}

\* the room emit sent with broadcast=True
new_message_room_targets_everyone(chat_id, sid) == BroadcastTargets \ {sid}

\* what emit('new_message', ..., room=chat_id, include_self=False) reaches
new_message_room_targets(chat_id, sid) ==
    IF chat_id \in RoomNames THEN RoomTargets(chat_id) \ {sid} ELSE {}

\* the second emit sent with broadcast=True instead of room=request.sid
new_message_sender_targets_broadcast(sid) == BroadcastTargets

\* what emit('new_message', ..., room=request.sid) reaches
new_message_sender_targets(sid) == SidTargets(sid)

\* the handler without its first check
missing_never(chat_id, content) == FALSE

\* if not chat_id or not message_content
missing(chat_id, content) == chat_id = NoChat \/ content = ""

Deliver(rcv, targets, m) ==
    [c \in Sids |-> IF c \in targets THEN [rcv[c] EXCEPT ![m] = @ + 1] ELSE rcv[c]]

\* handle_send_message from the checks to get_chat: validation, session
\* check, create_message, get_user_profile, get_chat
handle_send_message(h, c, chat_id, content) ==
    /\ handlers[h].pc = "idle"
    /\ conn[c] = "open"
    /\ emitted' = <<>>
    /\ IF missing(chat_id, content) \/ ~authenticated(c)
       THEN UNCHANGED <<messages, handlers, received>>
       ELSE /\ received' = [k \in Sids |-> Append(received[k], 0)]
            /\ messages' = Append(messages, create_message(chat_id, session[c], content))
            /\ LET todo == OtherParticipants(get_chat(chat_id, session[c]), session[c])
               IN handlers' = [handlers EXCEPT ![h] =
                      [pc |-> IF todo = <<>> THEN "broadcast" ELSE "find",
                       sid |-> c, chat_id |-> chat_id, msg |-> Len(messages) + 1,
                       todo |-> todo, existing |-> NoRow, count |-> 0]]
    /\ UNCHANGED <<conn, connected_clients, rooms, status, notifications>>

\* create_consolidated_message_notification: the find_one
notification_find(h) ==
    /\ handlers[h].pc = "find"
    /\ LET row == find_one_unread(notifications, Head(handlers[h].todo),
                                  session[handlers[h].sid])
       IN handlers' = [handlers EXCEPT ![h].pc = "write",
                                       ![h].existing = row,
                                       ![h].count = IF row = NoRow THEN 0
                                                    ELSE notifications[row].message_count]
    /\ emitted' = <<>>
    /\ UNCHANGED <<conn, connected_clients, rooms, status, messages, notifications,
                   received>>

\* create_consolidated_message_notification: the update_one or insert_one,
\* then emit('notification_updated', ..., room=participant_id_str)
notification_write(h) ==
    /\ handlers[h].pc = "write"
    /\ LET t == handlers[h]
           receiver_id == Head(t.todo)
           sender_id == session[t.sid]
           content == messages[t.msg].content
           row == IF t.existing # NoRow THEN t.existing ELSE Len(notifications) + 1
       IN /\ notifications' =
                 IF t.existing # NoRow
                 THEN update_existing(notifications, t.existing, sender_id, content, t.count)
                 ELSE insert_new(notifications, receiver_id, sender_id, content)
          /\ emitted' = <<Event("notification_updated", receiver_id, t.sid,
                                RoomTargets(receiver_id), receiver_id, t.msg, row)>>
          /\ handlers' = [handlers EXCEPT ![h].todo = Tail(t.todo),
                                          ![h].existing = NoRow,
                                          ![h].count = 0,
                                          ![h].pc = IF Tail(t.todo) = <<>>
                                                    THEN "broadcast" ELSE "find"]
    /\ UNCHANGED <<conn, connected_clients, rooms, status, messages, received>>

\* emit('new_message', message_data, room=chat_id, include_self=False)
send_broadcast(h) ==
    /\ handlers[h].pc = "broadcast"
    /\ LET t == handlers[h]
           to == new_message_room_targets(t.chat_id, t.sid)
       IN /\ received' = Deliver(received, to, t.msg)
          /\ emitted' = <<Event("new_message", t.chat_id, t.sid, to, session[t.sid],
                                t.msg, NoRow)>>
    /\ handlers' = [handlers EXCEPT ![h].pc = "echo"]
    /\ UNCHANGED <<conn, connected_clients, rooms, status, messages, notifications>>

\* emit('new_message', message_data, room=request.sid); the handler returns
send_echo(h) ==
    /\ handlers[h].pc = "echo"
    /\ LET t == handlers[h]
           to == new_message_sender_targets(t.sid)
       IN /\ received' = Deliver(received, to, t.msg)
          /\ emitted' = <<Event("new_message", t.sid, t.sid, to, session[t.sid],
                                t.msg, NoRow)>>
    /\ handlers' = [handlers EXCEPT ![h] = Idle]
    /\ UNCHANGED <<conn, connected_clients, rooms, status, messages, notifications>>

(***************************************************************************)
(* Mark-read handlers                                                      *)
(***************************************************************************)
\* socket event mark_notification_read {notification_id, sender_id}
handle_mark_notification_read(c, notification_id, sender_id) ==
    /\ conn[c] = "open"
    /\ IF session[c] = NoUser
       THEN /\ UNCHANGED notifications
            /\ emitted' = <<>>
       ELSE LET n1 == IF notification_id # NoRow
                      THEN mark_notification_as_read(notifications, notification_id,
                                                     session[c])
                      ELSE notifications
            IN IF sender_id # NoUser
               THEN /\ notifications' =
                          mark_all_message_notifications_as_read(n1, session[c], sender_id)
                    /\ emitted' = <<Event("notifications_cleared", session[c], c,
                                          RoomTargets(session[c]), session[c], 0,
                                          NoRow)>>
               ELSE /\ notifications' = n1
                    /\ emitted' = <<>>
    /\ UNCHANGED <<conn, connected_clients, rooms, status, messages, handlers, received>>

\* socket event mark_all_message_notifications_read {sender_id}
handle_mark_all_message_notifications_read(c, sender_id) ==
    /\ conn[c] = "open"
    /\ IF session[c] = NoUser
       THEN /\ UNCHANGED notifications
            /\ emitted' = <<>>
       ELSE /\ notifications' =
                  mark_all_message_notifications_as_read(notifications, session[c], sender_id)
            /\ emitted' =
                  IF MessageRowsToMark(notifications, session[c], sender_id) # {}
                  THEN <<Event("notifications_cleared", session[c], c,
                               RoomTargets(session[c]), session[c], 0, NoRow)>>
                  ELSE <<>>
    /\ UNCHANGED <<conn, connected_clients, rooms, status, messages, handlers, received>>

\* POST /api/notifications/mark-read {notification_id} with a session of u
mark_notification_read(u, notification_id) ==
    /\ notifications' = mark_notification_as_read(notifications, notification_id, u)
    /\ emitted' = <<>>
    /\ UNCHANGED <<conn, connected_clients, rooms, status, messages, handlers, received>>

\* POST /api/notifications/mark-all-read with a session of u
mark_all_notifications_read(u) ==
    /\ notifications' = mark_all_notifications_as_read(notifications, u)
    /\ emitted' = <<>>
    /\ UNCHANGED <<conn, connected_clients, rooms, status, messages, handlers, received>>

(***************************************************************************)
(* send_message when the database fails                                    *)
(***************************************************************************)
\* handle_send_message when create_message returns None (insert_one raised,
\* or chat_id is not an ObjectId): the else branch only prints
handle_send_message_unsaved(h, c, chat_id, content) ==
    /\ handlers[h].pc = "idle"
    /\ conn[c] = "open"
    /\ ~missing(chat_id, content)
    /\ authenticated(c)
    /\ emitted' = <<>>
    /\ UNCHANGED <<conn, connected_clients, rooms, status, messages, notifications,
                   handlers, received>>

\* create_consolidated_message_notification raises inside its try (at the
\* find_one, or at the update_one / insert_one, which then writes nothing)
\* and returns None; the loop emits notification_updated with
\* notification: None and goes on
notification_failed(h) ==
    /\ handlers[h].pc \in {"find", "write"}
    /\ LET t == handlers[h]
           receiver_id == Head(t.todo)
       IN /\ emitted' = <<Event("notification_updated", receiver_id, t.sid,
                                RoomTargets(receiver_id), receiver_id, t.msg, NoRow)>>
          /\ handlers' = [handlers EXCEPT ![h].todo = Tail(t.todo),
                                          ![h].existing = NoRow,
                                          ![h].count = 0,
                                          ![h].pc = IF Tail(t.todo) = <<>>
                                                    THEN "broadcast" ELSE "find"]
    /\ UNCHANGED <<conn, connected_clients, rooms, status, messages, notifications,
                   received>>

(***************************************************************************)
(* typing (the handler registered last, src/app.py:1483)                   *)
(***************************************************************************)
\* the emit without include_self=False
user_typing_targets_with_self(chat_id, sid) ==
    IF chat_id \in RoomNames THEN RoomTargets(chat_id) ELSE {}

\* what emit('user_typing', ..., room=chat_id, include_self=False) reaches
user_typing_targets(chat_id, sid) ==
    IF chat_id \in RoomNames THEN RoomTargets(chat_id) \ {sid} ELSE {}

handle_typing(c, chat_id) ==
    /\ conn[c] = "open"
    /\ emitted' = IF chat_id # NoChat /\ authenticated(c)
                  THEN <<Event("user_typing", chat_id, c,
                               user_typing_targets(chat_id, c), session[c],
                               NoMessage, NoRow)>>
                  ELSE <<>>
    /\ UNCHANGED <<conn, connected_clients, rooms, status, messages, notifications,
                   handlers, received>>

(***************************************************************************)
(* message_read                                                            *)
(***************************************************************************)
\* {'$push': {'read_by': user_id}} in the place of $addToSet
push(rb, message_id, user_id) ==
    Append(rb, [msg |-> message_id, reader |-> user_id])

\* messages.update_one({'_id': message_id}, {'$addToSet': {'read_by': user_id}})
add_to_set(rb, message_id, user_id) ==
    IF [msg |-> message_id, reader |-> user_id] \in Range(rb)
    THEN rb
    ELSE Append(rb, [msg |-> message_id, reader |-> user_id])

\* DatabaseManager._create_notification(sender_id, 'message_read', ...)
create_message_read_notification(ns, user_id) ==
    Append(ns, [user_id |-> user_id, type |-> "message_read",
                sender_id |-> NoUser, is_read |-> FALSE, message_count |-> 0,
                message |-> "Your message was read", latest_content |-> ""])

\* handle_message_read up to the update_one of mark_message_as_read;
\* result.modified_count > 0 iff the array changed
handle_message_read(h, c, message_id) ==
    /\ handlers[h].pc = "idle"
    /\ conn[c] = "open"
    /\ emitted' = <<>>
    /\ IF message_id # NoMessage /\ authenticated(c)
       THEN /\ read_by' = add_to_set(read_by, message_id, session[c])
            /\ handlers' = IF read_by' # read_by
                           THEN [handlers EXCEPT ![h] =
                                    [Idle EXCEPT !.pc = "read_notify", !.sid = c,
                                                 !.msg = message_id]]
                           ELSE handlers
       ELSE UNCHANGED <<read_by, handlers>>
    /\ UNCHANGED <<conn, connected_clients, rooms, status, messages, notifications,
                   received, receipts>>

\* mark_message_as_read after a modifying update: find_one of the message,
\* _create_notification for its sender unless the sender is the reader
message_read_notify(h) ==
    /\ handlers[h].pc = "read_notify"
    /\ LET t == handlers[h]
           sender_id == messages[t.msg].sender_id
       IN notifications' = IF sender_id # session[t.sid]
                           THEN create_message_read_notification(notifications, sender_id)
                           ELSE notifications
    /\ handlers' = [handlers EXCEPT ![h].pc = "read_receipt"]
    /\ emitted' = <<>>
    /\ UNCHANGED <<conn, connected_clients, rooms, status, messages, received,
                   read_by, receipts>>

\* handle_message_read when result['success']: find_one of the message and
\* emit('message_read_receipt', ..., room=str(message['sender_id']))
message_read_receipt(h) ==
    /\ handlers[h].pc = "read_receipt"
    /\ LET t == handlers[h]
           sender_id == messages[t.msg].sender_id
       IN /\ emitted' = <<Event("message_read_receipt", sender_id, t.sid,
                                RoomTargets(sender_id), session[t.sid], t.msg, NoRow)>>
          /\ receipts' = Append(receipts, [msg |-> t.msg, reader |-> session[t.sid]])
    /\ handlers' = [handlers EXCEPT ![h] = Idle]
    /\ UNCHANGED <<conn, connected_clients, rooms, status, messages, notifications,
                   received, read_by>>

(***************************************************************************)
(* reaction_added / reaction_removed                                       *)
(***************************************************************************)
\* data.get('emoji')
Emojis == {"+1", ""}

\* what emit('reaction_updated', ..., room=str(message['chat_id']),
\* include_self=False) reaches
reaction_updated_targets(chat_id, sid) ==
    IF chat_id \in RoomNames THEN RoomTargets(chat_id) \ {sid} ELSE {}

\* the body the two handlers share: the message is looked up and the event
\* relayed with the user_id the client sent
relay_reaction(c, message_id, emoji, user_id) ==
    /\ conn[c] = "open"
    /\ emitted' = IF /\ message_id # NoMessage
                     /\ emoji # ""
                     /\ user_id # NoUser
                     /\ message_id \in DOMAIN messages
                  THEN <<Event("reaction_updated", messages[message_id].chat_id, c,
                               reaction_updated_targets(messages[message_id].chat_id, c),
                               user_id, message_id, NoRow)>>
                  ELSE <<>>
    /\ UNCHANGED <<conn, connected_clients, rooms, status, messages, notifications,
                   handlers, received>>

handle_reaction_added(c, message_id, emoji, user_id) ==
    relay_reaction(c, message_id, emoji, user_id)

handle_reaction_removed(c, message_id, emoji, user_id) ==
    relay_reaction(c, message_id, emoji, user_id)

(***************************************************************************)
(* Unread figures reported to the clients                                  *)
(***************************************************************************)
\* DatabaseManager.get_unread_notifications_count
get_unread_notifications_count(ns, user_id) ==
    Cardinality({i \in DOMAIN ns : ns[i].user_id = user_id /\ ns[i].is_read = FALSE})

\* DatabaseManager.get_unread_message_notifications_count
get_unread_message_notifications_count(ns, user_id, sender_id) ==
    Cardinality({i \in DOMAIN ns : /\ ns[i].user_id = user_id
                                   /\ ns[i].type = "new_message"
                                   /\ ns[i].is_read = FALSE
                                   /\ (sender_id # NoUser => ns[i].sender_id = sender_id)})

\* DatabaseManager.get_active_message_senders: sender |-> 'message_count',
\* which the pipeline computes as {'$sum': 1} over the sender's unread rows
get_active_message_senders(ns, user_id) ==
    LET unread == {i \in DOMAIN ns : /\ ns[i].user_id = user_id
                                     /\ ns[i].type = "new_message"
                                     /\ ns[i].is_read = FALSE
                                     /\ ns[i].sender_id # NoUser}
    IN [s \in {ns[i].sender_id : i \in unread} |->
           Cardinality({i \in unread : ns[i].sender_id = s})]

(***************************************************************************)
(* Events arriving from the clients, with their inputs                     *)
(***************************************************************************)
ConnectOf(sids) ==
    /\ Cardinality({k \in Sids : conn[k] # "new"}) < MaxConns
    /\ \E c \in sids : handle_connect(c)
    /\ UNCHANGED observed

ConnectEmit ==
    /\ \E c \in Sids : handle_connect_emit(c)
    /\ UNCHANGED observed

Disconnect ==
    /\ \E c \in Sids : handle_disconnect(c)
    /\ UNCHANGED observed

DisconnectEmit ==
    /\ \E c \in Sids : handle_disconnect_emit(c)
    /\ UNCHANGED observed

Logout ==
    /\ \E u \in Users : logout(u)
    /\ UNCHANGED observed

JoinChatOf(names) ==
    /\ \E c \in Sids, r \in names :
          /\ r # NoChat => (c \in rooms[r] \/ Cardinality(Memberships) < MaxJoins)
          /\ handle_join_chat(c, r)
    /\ UNCHANGED observed

LeaveChatOf(names) ==
    /\ \E c \in Sids, r \in names : handle_leave_chat(c, r)
    /\ UNCHANGED observed

SendMessageOf(max, threads, chat_ids, contents) ==
    /\ Len(messages) < max
    /\ \E h \in threads, c \in Sids, chat_id \in chat_ids, content \in contents :
          handle_send_message(h, c, chat_id, content)
    /\ UNCHANGED observed

NotificationFind ==
    /\ \E h \in Threads : notification_find(h)
    /\ UNCHANGED observed

NotificationWrite ==
    /\ \E h \in Threads : notification_write(h)
    /\ UNCHANGED observed

SendBroadcast ==
    /\ \E h \in Threads : send_broadcast(h)
    /\ UNCHANGED observed

SendEcho ==
    /\ \E h \in Threads : send_echo(h)
    /\ UNCHANGED observed

MarkNotificationRead ==
    /\ \E c \in Sids, n \in (DOMAIN notifications) \cup {NoRow},
          s \in Users \cup {NoUser} :
             handle_mark_notification_read(c, n, s)
    /\ UNCHANGED observed

MarkAllMessageNotificationsRead ==
    /\ \E c \in Sids, s \in Users \cup {NoUser} :
          handle_mark_all_message_notifications_read(c, s)
    /\ UNCHANGED observed

HttpMarkNotificationRead ==
    /\ \E u \in Users, n \in DOMAIN notifications : mark_notification_read(u, n)
    /\ UNCHANGED observed

HttpMarkAllNotificationsRead ==
    /\ \E u \in Users : mark_all_notifications_read(u)
    /\ UNCHANGED observed

(***************************************************************************)
(* Specifications                                                          *)
(***************************************************************************)
\* Presence alone: sockets come and go, profiles log out
PresenceConnect == ConnectOf(Sids)

NextPresence ==
    \/ PresenceConnect
    \/ ConnectEmit
    \/ Disconnect
    \/ DisconnectEmit
    \/ Logout

SpecPresence == Init /\ [][NextPresence]_vars

\* Sockets, rooms and message fan-out: two tabs of u1, one socket of u2
FanoutConnect == ConnectOf({"k1", "k2", "k3"})

FanoutJoinChat == JoinChatOf(ChatIds \cup {NoChat})

FanoutLeaveChat == LeaveChatOf(ChatIds \cup {NoChat})

FanoutSendMessage ==
    SendMessageOf(FanoutMsgs, {"h1"}, {"c1", NoChat}, {"hi", ""})

NextFanout ==
    \/ FanoutConnect
    \/ ConnectEmit
    \/ FanoutJoinChat
    \/ FanoutLeaveChat
    \/ FanoutSendMessage
    \/ NotificationFind
    \/ NotificationWrite
    \/ SendBroadcast
    \/ SendEcho

SpecFanout == Init /\ [][NextFanout]_vars

\* The life of sockets around the messages of a chat: one tab of u1, one socket of u2,
\* one socket without a session
LifecycleConnect == ConnectOf({"k1", "k3", "k5"})

LifecycleSendMessage ==
    SendMessageOf(LifecycleMsgs, {"h1"}, {"c1"}, {"hi"})

NextLifecycle ==
    \/ LifecycleConnect
    \/ ConnectEmit
    \/ Disconnect
    \/ DisconnectEmit
    \/ FanoutJoinChat
    \/ FanoutLeaveChat
    \/ LifecycleSendMessage
    \/ NotificationFind
    \/ NotificationWrite
    \/ SendBroadcast
    \/ SendEcho

SpecLifecycle == Init /\ [][NextLifecycle]_vars

\* Consolidated notifications, every event handled to completion before
\* the next one: sockets of u1, u2 and u3 are connected
AllIdle == \A h \in Threads : handlers[h].pc = "idle"

NotifSendMessage ==
    /\ AllIdle
    /\ SendMessageOf(NotifMsgs, {"h1"}, {"c1"}, {"hi", "there"})

NotifMarkNotificationRead == AllIdle /\ MarkNotificationRead

NotifMarkAllMessageNotificationsRead == AllIdle /\ MarkAllMessageNotificationsRead

NotifHttpMarkNotificationRead == AllIdle /\ HttpMarkNotificationRead

NotifHttpMarkAllNotificationsRead == AllIdle /\ HttpMarkAllNotificationsRead

NextNotif ==
    \/ NotifSendMessage
    \/ NotificationFind
    \/ NotificationWrite
    \/ SendBroadcast
    \/ SendEcho
    \/ NotifMarkNotificationRead
    \/ NotifMarkAllMessageNotificationsRead
    \/ NotifHttpMarkNotificationRead
    \/ NotifHttpMarkAllNotificationsRead

SpecNotif == InitOpen({"k1", "k3", "k4"}) /\ [][NextNotif]_vars

\* Consolidated notifications with send_message handlers running
\* concurrently on the threads of the server
RaceSendMessage == SendMessageOf(RaceMsgs, Threads, {"c1"}, {"hi", "there"})

NextRace ==
    \/ RaceSendMessage
    \/ NotificationFind
    \/ NotificationWrite
    \/ SendBroadcast
    \/ SendEcho
    \/ MarkAllMessageNotificationsRead

SpecRace == InitOpen({"k1", "k3"}) /\ [][NextRace]_vars

(***************************************************************************)
(* Specifications that remember the inbound events they handled            *)
(***************************************************************************)
\* One inbound event: its name, the socket it came from, data.chat_id,
\* data.message, data.message_id, and whether the database call of the
\* handler succeeded.  tick alternates, so that handling the same event
\* again is a change of history.
Inbound(event, sid, chat_id, content, msg, ok) ==
    [event |-> event, sid |-> sid, chat_id |-> chat_id, content |-> content,
     msg |-> msg, ok |-> ok,
     tick |-> IF history = <<>> THEN 0 ELSE 1 - history[Len(history)].tick]

\* history keeps the n events handled last
Record(n, ev) ==
    LET all == Append(history, ev)
    IN history' = IF Len(all) > n THEN SubSeq(all, Len(all) - n + 1, Len(all)) ELSE all

\* history keeps the event handled last
Remember(ev) == history' = <<ev>>

Last(h) == h[Len(h)]

\* history keeps the event handled last and the one before it
RememberPair(ev) ==
    history' = IF history = <<>> THEN <<ev>> ELSE <<Last(history), ev>>

MessageReadNotify ==
    /\ \E h \in Threads : message_read_notify(h)
    /\ UNCHANGED history

MessageReadReceipt ==
    /\ \E h \in Threads : message_read_receipt(h)
    /\ UNCHANGED history

NotificationFailed ==
    /\ \E h \in Threads : notification_failed(h)
    /\ UNCHANGED observed

\* Guards of the room-scoped events: a socket of u1, one of u2 and one
\* without a session are connected
GuardJoinChat ==
    \E c \in Sids, r \in {"c1", NoChat} :
        /\ r # NoChat => (c \in rooms[r] \/ Cardinality(Memberships) < MaxJoins)
        /\ handle_join_chat(c, r)
        /\ Remember(Inbound("join_chat", c, r, "", NoMessage, TRUE))
        /\ UNCHANGED <<read_by, receipts>>

GuardLeaveChat ==
    \E c \in Sids, r \in {"c1", NoChat} :
        /\ handle_leave_chat(c, r)
        /\ Remember(Inbound("leave_chat", c, r, "", NoMessage, TRUE))
        /\ UNCHANGED <<read_by, receipts>>

GuardTyping ==
    \E c \in Sids, r \in {"c1", NoChat} :
        /\ handle_typing(c, r)
        /\ Remember(Inbound("typing", c, r, "", NoMessage, TRUE))
        /\ UNCHANGED <<read_by, receipts>>

GuardSendMessage ==
    /\ Len(messages) < GuardMsgs
    /\ \E c \in Sids, chat_id \in {"c1", NoChat}, content \in {"hi", ""} :
          /\ handle_send_message("h1", c, chat_id, content)
          /\ Remember(Inbound("send_message", c, chat_id, content,
                                      NoMessage, TRUE))
    /\ UNCHANGED <<read_by, receipts>>

NextGuard ==
    \/ GuardJoinChat
    \/ GuardLeaveChat
    \/ GuardTyping
    \/ GuardSendMessage
    \/ NotificationFind
    \/ NotificationWrite
    \/ SendBroadcast
    \/ SendEcho

SpecGuard == InitOpen({"k1", "k3", "k5"}) /\ [][NextGuard]_vars

\* send_message with a database that can fail: sockets of u1, u2 and u3,
\* the participants of c2
FailureJoinChat ==
    \E c \in Sids :
        /\ c \in rooms["c2"] \/ Cardinality(Memberships) < MaxJoins
        /\ handle_join_chat(c, "c2")
        /\ Remember(Inbound("join_chat", c, "c2", "", NoMessage, TRUE))
        /\ UNCHANGED <<read_by, receipts>>

FailureSendMessage ==
    /\ Len(messages) < FailureMsgs
    /\ \E c \in Sids :
          /\ handle_send_message("h1", c, "c2", "hi")
          /\ Remember(Inbound("send_message", c, "c2", "hi", NoMessage, TRUE))
    /\ UNCHANGED <<read_by, receipts>>

FailureSendMessageUnsaved ==
    /\ Len(messages) < FailureMsgs
    /\ \E c \in Sids :
          /\ handle_send_message_unsaved("h1", c, "c2", "hi")
          /\ Remember(Inbound("send_message", c, "c2", "hi", NoMessage, FALSE))
    /\ UNCHANGED <<read_by, receipts>>

NextFailure ==
    \/ FailureJoinChat
    \/ FailureSendMessage
    \/ FailureSendMessageUnsaved
    \/ NotificationFind
    \/ NotificationWrite
    \/ NotificationFailed
    \/ SendBroadcast
    \/ SendEcho

SpecFailure == InitOpen({"k1", "k3", "k4"}) /\ [][NextFailure]_vars

\* message_read handled on the threads of the server: sockets of u1 and u2
ReadSendMessage ==
    /\ Len(messages) < ReadMsgs
    /\ handle_send_message("h1", "k1", "c1", "hi")
    /\ RememberPair(Inbound("send_message", "k1", "c1", "hi", NoMessage, TRUE))
    /\ UNCHANGED <<read_by, receipts>>

ReadMessageRead ==
    \E h \in Threads, c \in Sids, m \in (DOMAIN messages) \cup {NoMessage} :
        /\ handle_message_read(h, c, m)
        /\ RememberPair(Inbound("message_read", c, NoChat, "", m, TRUE))

NextRead ==
    \/ ReadSendMessage
    \/ NotificationFind
    \/ NotificationWrite
    \/ SendBroadcast
    \/ SendEcho
    \/ ReadMessageRead
    \/ MessageReadNotify
    \/ MessageReadReceipt

SpecRead == InitOpen({"k1", "k3"}) /\ [][NextRead]_vars

\* join_chat and leave_chat repeated: sockets of u1 and u2
RoomsJoinChat ==
    \E c \in Sids, r \in ChatIds :
        /\ c \in rooms[r] \/ Cardinality(Memberships) < MaxJoins
        /\ handle_join_chat(c, r)
        /\ Record(RoomsLog, Inbound("join_chat", c, r, "", NoMessage, TRUE))
        /\ UNCHANGED <<read_by, receipts>>

RoomsLeaveChat ==
    \E c \in Sids, r \in ChatIds :
        /\ handle_leave_chat(c, r)
        /\ Record(RoomsLog, Inbound("leave_chat", c, r, "", NoMessage, TRUE))
        /\ UNCHANGED <<read_by, receipts>>

RoomsTyping ==
    \E c \in Sids, r \in ChatIds :
        /\ handle_typing(c, r)
        /\ Record(RoomsLog, Inbound("typing", c, r, "", NoMessage, TRUE))
        /\ UNCHANGED <<read_by, receipts>>

NextRooms ==
    \/ RoomsJoinChat
    \/ RoomsLeaveChat
    \/ RoomsTyping

SpecRooms == InitOpen({"k1", "k3"}) /\ [][NextRooms]_vars

\* Room-scoped broadcasts around the life of the sockets: SpecLifecycle
\* with typing
TypingOf(names) ==
    /\ \E c \in Sids, r \in names : handle_typing(c, r)
    /\ UNCHANGED observed

ScopeTyping == TypingOf({"c1"})

NextScope ==
    \/ LifecycleConnect
    \/ ConnectEmit
    \/ Disconnect
    \/ DisconnectEmit
    \/ FanoutJoinChat
    \/ FanoutLeaveChat
    \/ ScopeTyping
    \/ LifecycleSendMessage
    \/ NotificationFind
    \/ NotificationWrite
    \/ SendBroadcast
    \/ SendEcho

SpecScope == Init /\ [][NextScope]_vars

\* The summary of the consolidated notification: messages of 2, 5, 50 and
\* 51 characters, sends handled one after another, sockets of u1 and u2
Long50 == "0123456789012345678901234567890123456789012345678L"

Long51 == "0123456789012345678901234567890123456789012345678LM"

PreviewContents == {"hi", "there", Long50, Long51}

PreviewSendMessage ==
    /\ AllIdle
    /\ SendMessageOf(PreviewMsgs, {"h1"}, {"c1"}, PreviewContents)

NextPreview ==
    \/ PreviewSendMessage
    \/ NotificationFind
    \/ NotificationWrite
    \/ SendBroadcast
    \/ SendEcho
    \/ NotifMarkAllMessageNotificationsRead

SpecPreview == InitOpen({"k1", "k3"}) /\ [][NextPreview]_vars

\* Who may act on a chat: a socket of u1 (participant of c1), one of u3
\* (not a participant) and one without a session
AccessJoinChat ==
    \E c \in Sids :
        /\ handle_join_chat(c, "c1")
        /\ Remember(Inbound("join_chat", c, "c1", "", NoMessage, TRUE))
        /\ UNCHANGED <<read_by, receipts>>

AccessTyping ==
    \E c \in Sids :
        /\ handle_typing(c, "c1")
        /\ Remember(Inbound("typing", c, "c1", "", NoMessage, TRUE))
        /\ UNCHANGED <<read_by, receipts>>

AccessSendMessage ==
    /\ Len(messages) < AccessMsgs
    /\ \E c \in Sids :
          /\ handle_send_message("h1", c, "c1", "hi")
          /\ Remember(Inbound("send_message", c, "c1", "hi", NoMessage, TRUE))
    /\ UNCHANGED <<read_by, receipts>>

AccessReactionAdded ==
    \E c \in Sids, m \in (DOMAIN messages) \cup {NoMessage}, e \in Emojis,
       u \in Users \cup {NoUser} :
        /\ handle_reaction_added(c, m, e, u)
        /\ Remember(Inbound("reaction_added", c, NoChat, e, m, TRUE))
        /\ UNCHANGED <<read_by, receipts>>

AccessReactionRemoved ==
    \E c \in Sids, m \in (DOMAIN messages) \cup {NoMessage}, e \in Emojis,
       u \in Users \cup {NoUser} :
        /\ handle_reaction_removed(c, m, e, u)
        /\ Remember(Inbound("reaction_removed", c, NoChat, e, m, TRUE))
        /\ UNCHANGED <<read_by, receipts>>

NextAccess ==
    \/ AccessJoinChat
    \/ AccessTyping
    \/ AccessSendMessage
    \/ NotificationFind
    \/ NotificationWrite
    \/ SendBroadcast
    \/ SendEcho
    \/ AccessReactionAdded
    \/ AccessReactionRemoved

SpecAccess == InitOpen({"k1", "k4", "k5"}) /\ [][NextAccess]_vars

(***************************************************************************)
(* Properties                                                              *)
(***************************************************************************)
RECURSIVE SumOver(_, _)
SumOver(S, m) ==
    IF S = {} THEN 0
    ELSE LET c == CHOOSE x \in S : TRUE
         IN received[c][m] + SumOver(S \ {c}, m)

\* new_message copies of message m delivered so far, over all sockets
Deliveries(m) == SumOver(Sids, m)

\* the last step was the room emit of new_message / the emit to the sender
RoomEmit(e) == e.event = "new_message" /\ e.room \notin Sids

SenderEmit(e) == e.event = "new_message" /\ e.room \in Sids

\* open sockets joined to the room of e other than the socket that sent
JoinedOthers(e) == {c \in rooms[e.room] : conn[c] = "open" /\ c # e.origin}

Unread(r, s) ==
    {i \in DOMAIN notifications : /\ notifications[i].user_id = r
                                  /\ notifications[i].type = "new_message"
                                  /\ notifications[i].sender_id = s
                                  /\ ~notifications[i].is_read}

Read(r, s) ==
    {i \in DOMAIN notifications : /\ notifications[i].user_id = r
                                  /\ notifications[i].type = "new_message"
                                  /\ notifications[i].sender_id = s
                                  /\ notifications[i].is_read}

\* persisted messages from s to a chat that contains r
MessagesFor(r, s) ==
    {m \in DOMAIN messages : /\ messages[m].sender_id = s
                             /\ messages[m].chat_id \in ChatIds
                             /\ r \in Range(chats[messages[m].chat_id])}

\* C3: with every send handled to completion and no notification of the
\* pair marked read, K >= 1 persisted messages from s to a chat containing r
\* leave r with exactly one unread notification for s, of message_count K.
C3_OneNotificationCountingK ==
    AllIdle =>
       \A r \in Users : \A s \in Users \ {r} :
          (MessagesFor(r, s) # {} /\ Read(r, s) = {}) =>
             /\ Cardinality(Unread(r, s)) = 1
             /\ \A i \in Unread(r, s) :
                   notifications[i].message_count = Cardinality(MessagesFor(r, s))

\* C4: each recipient has at most one unread new_message notification per
\* sender, in every reachable state.
C4_AtMostOneUnreadPerSender ==
    \A r \in Users : \A s \in Users : Cardinality(Unread(r, s)) <= 1

\* C5: no increment is lost: once the handlers have finished, a pair whose
\* messages were all counted in one notification that was never marked read
\* has message_count equal to the number of its messages.
C5_NoLostIncrement ==
    AllIdle =>
       \A r \in Users : \A s \in Users \ {r} :
          (Read(r, s) = {} /\ Cardinality(Unread(r, s)) = 1) =>
             \A i \in Unread(r, s) :
                notifications[i].message_count = Cardinality(MessagesFor(r, s))

C7_ReadNotificationIsInert ==
    [][\A i \in DOMAIN notifications :
          notifications[i].is_read =>
             /\ notifications'[i].message_count = notifications[i].message_count
             /\ notifications'[i].message = notifications[i].message
             /\ notifications'[i].latest_content = notifications[i].latest_content
      ]_vars

\* no connect or disconnect handler is in progress (logout is one step)
NoPresenceHandlerRunning ==
    \A c \in Sids : conn[c] \notin {"connecting", "disconnecting"}

\* C8: with no connect, disconnect or logout in progress, a user's persisted
\* status is 'online' iff a live authenticated connection maps to the user.
C8_OnlineIffConnected ==
    NoPresenceHandlerRunning =>
       \A u \in Users : (status[u] = "online") <=> (LiveConnections(u) # {})

\* C9: with no other presence handler running, a connect that finds other
\* live connections of the user, or a disconnect that leaves some, changes
\* no status and broadcasts nothing; user_online is broadcast only by the
\* user's only live connection, user_offline only by the user's last one.
C9_PresenceEventsOnlyOnTransitions ==
    [][\A c \in Sids :
          LET others == LiveConnections(session[c]) \ {c}
              alone == \A k \in Sids \ {c} :
                          conn[k] \notin {"connecting", "disconnecting"}
          IN (session[c] # NoUser /\ alone /\ others # {}) =>
                /\ (conn[c] = "new" /\ conn'[c] = "connecting") => status' = status
                /\ (conn[c] = "connecting" /\ conn'[c] = "open") => emitted' = <<>>
                /\ (conn[c] = "open" /\ conn'[c] = "disconnecting") => status' = status
                /\ (conn[c] = "disconnecting" /\ conn'[c] = "closed") => emitted' = <<>>
      ]_vars

\* C10: a socket that has disconnected is in no room, has no entry in
\* connected_clients, and no event emitted afterwards is delivered to it.
C10_DisconnectedSocketIsGone ==
    \A c \in Sids :
       conn[c] = "closed" =>
          /\ \A r \in RoomNames : c \notin rooms[r]
          /\ connected_clients[c] = NoUser
          /\ \A i \in DOMAIN emitted : c \notin emitted[i].to

\* C10 witness: a closed socket that had received message 1 as a member of
\* its room (another user sent it); message 2 of the same chat is emitted
\* after it closed and reaches another socket
C10_Witness ==
    \E c \in Sids : \E i \in DOMAIN emitted :
        /\ conn[c] = "closed"
        /\ Len(messages) = 2
        /\ received[c][1] = 1
        /\ received[c][2] = 0
        /\ messages[1].sender_id # session[c]
        /\ messages[2].chat_id = messages[1].chat_id
        /\ emitted[i].event = "new_message"
        /\ emitted[i].msg = 2
        /\ emitted[i].to # {}

\* an emit of name to exactly the socket c among the events of a step
EmitsTo(es, name, c) ==
    \E i \in DOMAIN es : es[i].event = name /\ es[i].to = {c}

\* C11: when create_message returns no message during send_message, the
\* originating connection receives message_error, no connection receives
\* new_message, and no notification is created or changed.
C11_PersistFailureReportedToSender ==
    [][(/\ history' # history
        /\ Last(history').event = "send_message"
        /\ ~Last(history').ok) =>
           /\ EmitsTo(emitted', "message_error", Last(history').sid)
           /\ \A i \in DOMAIN emitted' : emitted'[i].event # "new_message"
           /\ received' = received
           /\ notifications' = notifications
      ]_vars

\* C12: when creating or updating the notification of a participant fails
\* (the handler moves past the participant without a write), the fan-out is
\* aborted: the handler ends there, the sender receives message_error and
\* nothing else is emitted.
C12_NotificationFailureAbortsFanout ==
    [][\A h \in Threads :
          (/\ handlers[h].pc \in {"find", "write"}
           /\ handlers'[h].todo # handlers[h].todo
           /\ notifications' = notifications) =>
              /\ handlers'[h].pc = "idle"
              /\ EmitsTo(emitted', "message_error", handlers[h].sid)
              /\ \A i \in DOMAIN emitted' : emitted'[i].event = "message_error"
      ]_vars

\* C13: a send_message with empty content or without a chat id stores no
\* message, emits nothing, delivers nothing and changes no notification.
C13_InvalidSendIsRejected ==
    [][(/\ history' # history
        /\ Last(history').event = "send_message"
        /\ \/ Last(history').chat_id = NoChat
           \/ Last(history').content = "") =>
           /\ messages' = messages
           /\ notifications' = notifications
           /\ handlers' = handlers
           /\ received' = received
           /\ emitted' = <<>>
      ]_vars

\* C13 witness: after one message was stored, an authenticated socket sent
\* empty content to a chat whose room another socket has joined; nothing
\* was stored or emitted
C13_Witness ==
    /\ history # <<>>
    /\ Last(history).event = "send_message"
    /\ Last(history).content = ""
    /\ Last(history).chat_id = "c1"
    /\ session[Last(history).sid] # NoUser
    /\ rooms["c1"] \ {Last(history).sid} # {}
    /\ Len(messages) = 1
    /\ emitted = <<>>

\* C14: a join_chat, leave_chat, send_message or typing event from a
\* connection without an authenticated user changes no room, message,
\* notification or delivery and emits nothing.
C14_UnauthenticatedEventsAreDropped ==
    [][(/\ history' # history
        /\ session[Last(history').sid] = NoUser
        /\ Last(history').event \in {"join_chat", "leave_chat", "send_message",
                                     "typing"}) =>
           /\ rooms' = rooms
           /\ messages' = messages
           /\ notifications' = notifications
           /\ handlers' = handlers
           /\ received' = received
           /\ emitted' = <<>>
      ]_vars

\* C14 witness: the socket without a session sent a complete send_message to
\* a chat whose room a socket has joined; nothing was stored
C14_Witness ==
    /\ history # <<>>
    /\ session[Last(history).sid] = NoUser
    /\ Last(history).event = "send_message"
    /\ Last(history).chat_id = "c1"
    /\ Last(history).content = "hi"
    /\ rooms["c1"] # {}
    /\ messages = <<>>
    /\ emitted = <<>>

RECURSIVE TotalCount(_)
TotalCount(S) ==
    IF S = {} THEN 0
    ELSE LET i == CHOOSE x \in S : TRUE
         IN notifications[i].message_count + TotalCount(S \ {i})

\* C15: once the sends are handled, every persisted message of s to a chat
\* containing r has been counted exactly once in r's notifications for s
\* (a row created with count 1 or a count incremented by 1), and no user
\* holds a new_message notification for their own messages.
C15_EachParticipantNotifiedOncePerMessage ==
    AllIdle =>
       \A r \in Users : \A s \in Users :
          IF r = s
          THEN Unread(r, s) \cup Read(r, s) = {}
          ELSE TotalCount(Unread(r, s) \cup Read(r, s)) = Cardinality(MessagesFor(r, s))

\* C16: every live authenticated connection is a member of the room named
\* by its user id, and an event emitted to such a room is delivered to each
\* live connection of that user.
C16_ConnectionsAreInIdentityChannel ==
    /\ \A c \in Sids :
          (conn[c] = "open" /\ connected_clients[c] # NoUser) =>
             c \in rooms[connected_clients[c]]
    /\ \A i \in DOMAIN emitted :
          emitted[i].room \in Users =>
             {c \in Sids : conn[c] = "open" /\ connected_clients[c] = emitted[i].room}
                \subseteq emitted[i].to

\* C17: however often and however interleaved a reader sends message_read
\* for a message, the reader is in the message's read_by array once and at
\* most one message_read_receipt is emitted for the pair.
C17_ReadRecordedAndReceiptedOnce ==
    \A m \in DOMAIN messages : \A u \in Users :
       /\ Cardinality({i \in DOMAIN read_by :
                          read_by[i] = [msg |-> m, reader |-> u]}) <= 1
       /\ Cardinality({i \in DOMAIN receipts :
                          receipts[i] = [msg |-> m, reader |-> u]}) <= 1

\* C17 witness: the two events handled last are message_read of one socket
\* for one message; the reader is recorded and one receipt was emitted
C17_Witness ==
    /\ Len(history) = 2
    /\ history[1].event = "message_read"
    /\ history[2].event = "message_read"
    /\ history[1].sid = history[2].sid
    /\ history[1].msg = history[2].msg
    /\ history[1].msg # NoMessage
    /\ AllIdle
    /\ [msg |-> history[1].msg, reader |-> session[history[1].sid]] \in Range(read_by)
    /\ [msg |-> history[1].msg, reader |-> session[history[1].sid]] \in Range(receipts)

\* C18: no message_read_receipt is emitted for a reader who is the sender
\* of the message.
C18_NoReceiptForOwnMessage ==
    \A i \in DOMAIN receipts :
       receipts[i].reader # messages[receipts[i].msg].sender_id

\* C19: every step that marks a notification of a user read emits
\* notifications_cleared to the room named by that user's id.
C19_MarkReadEmitsNotificationsCleared ==
    [][\A u \in Users :
          (\E i \in DOMAIN notifications :
              /\ notifications[i].user_id = u
              /\ ~notifications[i].is_read
              /\ notifications'[i].is_read) =>
             \E j \in DOMAIN emitted' :
                /\ emitted'[j].event = "notifications_cleared"
                /\ emitted'[j].room = u
      ]_vars

\* C20: join_chat leaves the connection a member and changes nothing when
\* it already is one; leave_chat leaves it a non-member and changes nothing
\* when it is not one; neither touches another connection or room, and a
\* later emit to the room reaches each other member once.
C20_JoinAndLeaveAreIdempotent ==
    [][history' # history =>
          LET e == Last(history')
              c == e.sid
              r == e.chat_id
          IN /\ e.event = "join_chat" =>
                   /\ rooms' = [rooms EXCEPT ![r] = @ \cup {c}]
                   /\ c \in rooms[r] => rooms' = rooms
             /\ e.event = "leave_chat" =>
                   /\ rooms' = [rooms EXCEPT ![r] = @ \ {c}]
                   /\ c \notin rooms[r] => rooms' = rooms
             /\ e.event = "typing" =>
                   /\ rooms' = rooms
                   /\ Len(emitted') = 1
                   /\ emitted'[1].to = rooms[r] \ {c}
      ]_vars

\* C20 witness: a socket joined a room twice and left it once, and is not
\* a member
C20_Witness ==
    /\ Len(history) = 3
    /\ history[1].event = "join_chat"
    /\ history[2].event = "join_chat"
    /\ history[3].event = "leave_chat"
    /\ history[1].sid = history[2].sid
    /\ history[2].sid = history[3].sid
    /\ history[1].chat_id = history[2].chat_id
    /\ history[2].chat_id = history[3].chat_id
    /\ history[3].sid \notin rooms[history[3].chat_id]

\* the chat a room-scoped event belongs to
ChatOf(e) == IF e.event = "new_message" THEN messages[e.msg].chat_id ELSE e.room

\* C21: new_message and user_typing of a chat are delivered only to
\* connections joined to the chat's room at that moment, and (new_message)
\* to the originating connection; a connection that never joined, has left
\* or has disconnected receives none.
C21_OnlyJoinedConnectionsReceive ==
    \A i \in DOMAIN emitted :
       emitted[i].event \in {"new_message", "user_typing"} =>
          \A c \in Sids \ {emitted[i].origin} :
             c \in emitted[i].to =>
                /\ conn[c] = "open"
                /\ c \in rooms[ChatOf(emitted[i])]

\* C21 witness: an authenticated socket received message 1 while joined,
\* has left the room, and message 2 of the chat was emitted to the room
\* without reaching it
C21_Witness ==
    \E i \in DOMAIN emitted : \E c \in Sids \ {emitted[i].origin} :
        /\ emitted[i].event = "new_message"
        /\ emitted[i].room = "c1"
        /\ emitted[i].msg = 2
        /\ conn[c] = "open"
        /\ connected_clients[c] # NoUser
        /\ c \notin rooms["c1"]
        /\ received[c][1] = 1
        /\ received[c][2] = 0

\* C22: a typing event with a chat id from an authenticated connection
\* changes nothing that is stored or kept in memory and emits one
\* user_typing, delivered to exactly the connections joined to the room
\* other than the originating one.
C22_TypingOnlyBroadcasts ==
    [][(/\ history' # history
        /\ Last(history').event = "typing"
        /\ Last(history').chat_id # NoChat
        /\ session[Last(history').sid] # NoUser) =>
           /\ UNCHANGED <<conn, connected_clients, rooms, status, messages,
                          notifications, handlers, received, read_by, receipts>>
           /\ Len(emitted') = 1
           /\ emitted'[1].event = "user_typing"
           /\ emitted'[1].to =
                 {k \in rooms[Last(history').chat_id] : conn[k] = "open"}
                    \ {Last(history').sid}
      ]_vars

\* C22 witness: a joined socket typed and the other joined socket alone
\* received user_typing
C22_Witness ==
    /\ history # <<>>
    /\ Last(history).event = "typing"
    /\ Last(history).sid \in rooms["c1"]
    /\ Cardinality(rooms["c1"]) = 2
    /\ Len(emitted) = 1
    /\ emitted[1].event = "user_typing"
    /\ emitted[1].to = rooms["c1"] \ {Last(history).sid}

\* C23: the connect and the disconnect of a connection without an
\* authenticated user add and remove no registry entry, change no status
\* and broadcast nothing.
C23_UnauthenticatedPresenceIsNoOp ==
    [][\A c \in Sids :
          (session[c] = NoUser /\ conn'[c] # conn[c]) =>
             /\ connected_clients' = connected_clients
             /\ status' = status
             /\ emitted' = <<>>
      ]_vars

\* C23 witness: the socket without a session has connected and
\* disconnected while a user is online
C23_Witness ==
    \E c \in Sids : \E k \in Sids :
        /\ session[c] = NoUser
        /\ conn[c] = "closed"
        /\ conn[k] = "open"
        /\ connected_clients[k] # NoUser
        /\ status[connected_clients[k]] = "online"

\* C24: when user_online (user_offline) of a user has just been broadcast,
\* the user's persisted status is 'online' ('offline').
C24_StatusMatchesBroadcast ==
    \A i \in DOMAIN emitted :
       /\ emitted[i].event = "user_online" => status[emitted[i].user] = "online"
       /\ emitted[i].event = "user_offline" => status[emitted[i].user] = "offline"

\* C25: every notification_updated comes with a notification_badge_updated
\* to the same room (carrying the participant's unread count).
C25_BadgeSentWithNotification ==
    \A i \in DOMAIN emitted :
       emitted[i].event = "notification_updated" =>
          \E j \in DOMAIN emitted :
             /\ emitted[j].event = "notification_badge_updated"
             /\ emitted[j].room = emitted[i].room

\* senders that have unseen messages for r
UnseenSenders(r) == {s \in Users : Unread(r, s) # {}}

\* C26: the global unread figures of a recipient equal the number of
\* distinct senders with unseen messages, and every per-sender figure equals
\* the message_count of that sender's unread row.
C26_BadgesUseOneDefinition ==
    \A r \in Users :
       /\ get_unread_notifications_count(notifications, r) =
             Cardinality(UnseenSenders(r))
       /\ get_unread_message_notifications_count(notifications, r, NoUser) =
             Cardinality(UnseenSenders(r))
       /\ DOMAIN get_active_message_senders(notifications, r) = UnseenSenders(r)
       /\ \A s \in UnseenSenders(r) : \A i \in Unread(r, s) :
             /\ get_active_message_senders(notifications, r)[s] =
                   notifications[i].message_count
             /\ get_unread_message_notifications_count(notifications, r, s) =
                   notifications[i].message_count

\* '<sender display name>: <preview>' of a message
ExpectedSummary(m) ==
    display_name[m.sender_id] \o ": " \o
       (IF Len(m.content) <= 50 THEN m.content
        ELSE SubSeq(m.content, 1, 47) \o "...")

\* With the sends handled one after another (SpecPreview): the notification
\* written for a message carries the summary built from that message, with a
\* preview of at most 50 characters, and the message's content as latest
\* content; 'hi' then 'there' from u1 leave u2 one notification of
\* message_count 2 and summary 'A: there'.
SummaryOfSequentialSends ==
    /\ \A i \in DOMAIN emitted :
          (emitted[i].event = "notification_updated" /\ emitted[i].row # NoRow) =>
             LET n == notifications[emitted[i].row]
                 m == messages[emitted[i].msg]
             IN /\ n.message = ExpectedSummary(m)
                /\ Len(n.message) <= Len(display_name[m.sender_id]) + 2 + 50
                /\ n.latest_content = m.content
    /\ (/\ AllIdle
        /\ Len(messages) = 2
        /\ messages[1] = [chat_id |-> "c1", sender_id |-> "u1", content |-> "hi"]
        /\ messages[2] = [chat_id |-> "c1", sender_id |-> "u1", content |-> "there"]
        /\ Read("u2", "u1") = {}) =>
           /\ Cardinality(Unread("u2", "u1")) = 1
           /\ \A i \in Unread("u2", "u1") :
                 /\ notifications[i].message_count = 2
                 /\ notifications[i].message = "A: there"

\* a notification updated by a second message of 51 characters, its summary
\* cut to 47 characters and the ellipsis
SummaryTruncated ==
    \E i \in DOMAIN emitted :
        /\ emitted[i].event = "notification_updated"
        /\ emitted[i].row # NoRow
        /\ notifications[emitted[i].row].message_count = 2
        /\ notifications[emitted[i].row].latest_content = Long51
        /\ notifications[emitted[i].row].message =
              "A: " \o "01234567890123456789012345678901234567890123456" \o "..."

\* the message of s persisted last in a chat that contains r
LastMessageFor(r, s) ==
    CHOOSE m \in MessagesFor(r, s) : \A k \in MessagesFor(r, s) : k <= m

\* C27: once the sends are handled, the unread notification of a pair (one
\* row, none marked read) has the summary '<sender display name>:
\* <preview>' of the most recent message of the sender, the preview being
\* the content when it has at most 50 characters and its first 47
\* characters and '...' otherwise; 'hi' then 'there' give 'A: there'.
C27_SummaryIsLatestPreview ==
    AllIdle =>
       \A r \in Users : \A s \in Users \ {r} :
          (/\ MessagesFor(r, s) # {}
           /\ Read(r, s) = {}
           /\ Cardinality(Unread(r, s)) = 1) =>
              \A i \in Unread(r, s) :
                 /\ notifications[i].message =
                       ExpectedSummary(messages[LastMessageFor(r, s)])
                 /\ notifications[i].latest_content =
                       messages[LastMessageFor(r, s)].content

\* C28: no message of a sender who is not a participant of the chat is
\* persisted in that chat, and no new_message is delivered for it.
C28_NonParticipantSendIsDropped ==
    /\ \A m \in DOMAIN messages :
          messages[m].chat_id \in ChatIds =>
             messages[m].sender_id \in Range(chats[messages[m].chat_id])
    /\ \A i \in DOMAIN emitted :
          (/\ emitted[i].event = "new_message"
           /\ emitted[i].user \notin Range(chats[messages[emitted[i].msg].chat_id])) =>
             emitted[i].to = {}

\* C29: new_message, user_typing and reaction_updated of a chat reach,
\* apart from the originating connection, only connections whose user is a
\* participant of the chat.
C29_OnlyParticipantsReceive ==
    \A i \in DOMAIN emitted :
       (/\ emitted[i].event \in {"new_message", "user_typing", "reaction_updated"}
        /\ ChatOf(emitted[i]) \in ChatIds) =>
          \A c \in emitted[i].to \ {emitted[i].origin} :
             session[c] \in Range(chats[ChatOf(emitted[i])])

\* C30: an event handled for a connection without an authenticated user
\* reaches no other connection, and a relayed reaction_updated carries the
\* authenticated user of the originating connection as user_id.
C30_UnauthenticatedEventsReachNobody ==
    \A i \in DOMAIN emitted :
       /\ session[emitted[i].origin] = NoUser =>
             emitted[i].to \subseteq {emitted[i].origin}
       /\ emitted[i].event = "reaction_updated" =>
             emitted[i].user = session[emitted[i].origin]

====
